---- MODULE Spec2Model ----
(***************************************************************************)
(* A model of the sidvy-mcp server: the group hierarchy engine of          *)
(* GroupsApi (buildGroupTree, getGroupPath, createGroupPath), the          *)
(* paginated fetch loops, SidvyApiClient.request, the CallTool dispatch of *)
(* SidvyMcpServer, and the facade operations behind the todo, group,       *)
(* workspace and find-by-id tools.                                         *)
(*                                                                         *)
(* Group ids are positive integers; 0 stands for an absent parentId        *)
(* (undefined or null, both falsy in the source).                          *)
(***************************************************************************)
EXTENDS Integers, Sequences, FiniteSets, TLC

VARIABLES
  groups,    \* the flat group list (snapshot) given to the hierarchy engine
  shuffled,  \* the same list in another order
  forest,    \* buildGroupTree(groups)
  forest2,   \* buildGroupTree(shuffled)
  treePc,    \* "input" before getGroupTree, "built" after
  gp,        \* the getGroupPath call: its position and local variables
  remote,    \* the groups held by the remote service, in creation order
  serverOrder, \* the order of a /group listing requested without a sort
  cg,        \* the createGroupPath calls: position and local variables of each
  cl,        \* a SidvyApiClient.request call: its position, the outcome, the result
  listing,   \* the remote listing a paginated fetch reads: item count, metadata
  pf,        \* a paginated fetch: its position and local variables
  dp,        \* a CallTool request: its position, the fault thrown, the response
  bt,        \* a create_todos_for_note call: its position, the results, the response
  rg,        \* a getRootGroups / getChildGroups call: the query sent, the result
  ws,        \* the workspaces held by the remote service, and the next id it assigns
  wc,        \* the workspace tool calls: position and local variables of the current one
  fb,        \* a find-by-id call: the id looked for, the listing outcome, the result
  ap,        \* an append call: the content read, the content given, the updates sent
  tg,        \* the toggleTodo calls on one todo: its remote value, the updates sent
  cf         \* a SidvyApiClient: its config, its Authorization header, the calls made

treeVars == <<shuffled, forest, forest2, treePc>>

remoteVars == <<remote, serverOrder, cg>>

fetchVars == <<listing, pf>>

workspaceVars == <<ws, wc>>

\* The state of the helper methods and of the client's configuration.
helperVars == <<ap, tg, cf>>

\* The state of the facade calls of the later sections.
facadeVars == <<bt, rg, ws, wc, fb, helperVars>>

vars ==
  <<groups, shuffled, forest, forest2, treePc, gp, remote, serverOrder, cg, cl,
    listing, pf, dp, bt, rg, ws, wc, fb, ap, tg, cf>>

(***************************************************************************)
(* Bounds of the model.                                                    *)
(***************************************************************************)
MaxGroups == 3

\* Group names of the snapshots given to the hierarchy engine.
TreeNames == {"a", "b"}

\* Ids a snapshot may hold; MaxGroups + 1 is never the id of a group.
GroupIds == 1..MaxGroups

ParentRefs == 0..(MaxGroups + 1)

NoParent == 0

(***************************************************************************)
(* String.prototype.localeCompare on the names of the model: the sign of   *)
(* the difference of the collation keys (lower case sorts before upper     *)
(* case of the same letter, unlike code point order).                      *)
(***************************************************************************)
CollationKey(n) ==
  CASE n = "a" -> 1
    [] n = "A" -> 2
    [] n = "b" -> 3
    [] n = "B" -> 4
    [] n = "c" -> 5
    [] OTHER -> 6

localeCompare(a, b) ==
  IF CollationKey(a) < CollationKey(b) THEN -1
  ELSE IF CollationKey(a) > CollationKey(b) THEN 1 ELSE 0

(***************************************************************************)
(* Sequences helpers.                                                      *)
(***************************************************************************)
Range(s) == {s[i] : i \in DOMAIN s}

Injective(s) == \A i, j \in DOMAIN s : s[i] = s[j] => i = j

\* The rearrangements of a sequence.
Shuffles(s) ==
  {[i \in DOMAIN s |-> s[p[i]]] :
     p \in {q \in [DOMAIN s -> DOMAIN s] : \A i, j \in DOMAIN s : q[i] = q[j] => i = j}}

(***************************************************************************)
(* GroupsApi.buildGroupTree.  A forest is the root list plus, per group    *)
(* id, the node fields children, level and path of the groupMap.           *)
(***************************************************************************)
IdsOf(gs) == {gs[i].id : i \in DOMAIN gs}

GroupOf(gs, id) == gs[CHOOSE i \in DOMAIN gs : gs[i].id = id]

\* groups.forEach: groupMap.set(group.id, {...group, children: [], level: 0, path: []})
createNodes(gs) ==
  [roots |-> <<>>,
   name |-> [id \in IdsOf(gs) |-> GroupOf(gs, id).name],
   parentId |-> [id \in IdsOf(gs) |-> GroupOf(gs, id).parentId],
   children |-> [id \in IdsOf(gs) |-> <<>>],
   level |-> [id \in IdsOf(gs) |-> 0],
   path |-> [id \in IdsOf(gs) |-> <<>>]]

\* One iteration of the second groups.forEach, for the group g.
attachNode(f, g) ==
  IF g.parentId # NoParent
  THEN IF g.parentId \in DOMAIN f.children
       THEN LET withChild == [f EXCEPT !.children[g.parentId] = Append(@, g.id)]
            IN [withChild EXCEPT
                  !.level[g.id] = withChild.level[g.parentId] + 1,
                  !.path[g.id] = Append(withChild.path[g.parentId],
                                        withChild.name[g.parentId])]
       ELSE f
  ELSE [f EXCEPT !.roots = Append(@, g.id)]

RECURSIVE attachAll(_, _, _)
attachAll(f, gs, i) ==
  IF i > Len(gs) THEN f ELSE attachAll(attachNode(f, gs[i]), gs, i + 1)

\* A sort that is not stable: an element goes before the equal ones.
RECURSIVE insertSortedUnstable(_, _, _)
insertSortedUnstable(names, sorted, x) ==
  IF sorted = <<>> THEN <<x>>
  ELSE IF localeCompare(names[sorted[Len(sorted)]], names[x]) < 0
       THEN Append(sorted, x)
       ELSE Append(insertSortedUnstable(names, SubSeq(sorted, 1, Len(sorted) - 1), x),
                   sorted[Len(sorted)])

\* Array.prototype.sort with (a, b) => a.name.localeCompare(b.name): a stable
\* sort, here by insertion after the last element that does not compare greater.
RECURSIVE insertSorted(_, _, _)
insertSorted(names, sorted, x) ==
  IF sorted = <<>> THEN <<x>>
  ELSE IF localeCompare(names[sorted[Len(sorted)]], names[x]) <= 0
       THEN Append(sorted, x)
       ELSE Append(insertSorted(names, SubSeq(sorted, 1, Len(sorted) - 1), x),
                   sorted[Len(sorted)])

RECURSIVE sortNodes(_, _, _)
sortNodes(names, nodes, i) ==
  IF i = 0 THEN <<>>
  ELSE insertSorted(names, sortNodes(names, nodes, i - 1), nodes[i])

\* The nodes sortChildren visits: the roots and everything below them.
RECURSIVE reachFrom(_, _)
reachFrom(f, seen) ==
  LET more == seen \cup UNION {Range(f.children[id]) : id \in seen}
  IN IF more = seen THEN seen ELSE reachFrom(f, more)

Reachable(f) == reachFrom(f, Range(f.roots))

sortChildren(f) ==
  [f EXCEPT
     !.roots = sortNodes(f.name, f.roots, Len(f.roots)),
     !.children = [id \in DOMAIN f.children |->
                     IF id \in Reachable(f)
                     THEN sortNodes(f.name, f.children[id], Len(f.children[id]))
                     ELSE f.children[id]]]

buildGroupTree(gs) == sortChildren(attachAll(createNodes(gs), gs, 1))

\* What a caller can see of a forest: the roots and the nodes below them.
ForestView(f) ==
  LET R == Reachable(f)
  IN [roots |-> f.roots,
      nodes |-> [id \in R |-> [name |-> f.name[id],
                               parentId |-> f.parentId[id],
                               children |-> f.children[id],
                               level |-> f.level[id],
                               path |-> f.path[id]]]]

(***************************************************************************)
(* The snapshots: group i of the list has id i; a parentId is absent, the  *)
(* id of a group of the list, or an id no group has.                       *)
(***************************************************************************)
GroupRecs(id) == [id : {id}, name : TreeNames, parentId : ParentRefs]

Snapshots ==
  UNION {{s \in [1..n -> UNION {GroupRecs(id) : id \in GroupIds}] :
            \A i \in 1..n : s[i].id = i} : n \in 0..MaxGroups}

EmptyForest == createNodes(<<>>)

(***************************************************************************)
(* The state before any call.  A specification starts the part of the      *)
(* state it does not exercise idle and leaves it so.                       *)
(***************************************************************************)
IdleTree ==
  /\ shuffled = groups
  /\ forest = EmptyForest
  /\ forest2 = EmptyForest
  /\ treePc = "input"

\* The createGroupPath calls of the model.
Procs == {1, 2}

IdleCall ==
  [pc |-> "idle", path |-> <<>>, i |-> 0, currentParentId |-> NoParent,
   createdGroups |-> <<>>, result |-> [success |-> TRUE, data |-> <<>>],
   reqs |-> <<>>, startCount |-> 0]

IdleRemote ==
  /\ remote = <<>>
  /\ serverOrder = "createdAt:asc"
  /\ cg = [p \in Procs |-> IdleCall]

\* SidvyApiClient.request: a value (a parsed body, or the resolved value of
\* request) is described by what its fields success, data, error and meta
\* hold; a scalar or an array has none of them.
Value(kind, truthy, success, data, error, meta) ==
  [kind |-> kind, truthy |-> truthy, success |-> success, data |-> data,
   error |-> error, meta |-> meta]

\* null, also what response.json().catch(() => null) gives for a body that
\* is absent or not JSON
NullValue == Value("null", FALSE, "absent", "absent", "absent", "absent")

IdleClient ==
  cl = [pc |-> "idle", method |-> "GET", sent |-> 0, outcome |-> "none",
        body |-> NullValue, result |-> NullValue]

IdleFetchCall ==
  [pc |-> "idle", which |-> "groups", page |-> 1, hasMore |-> TRUE,
   all |-> <<>>, requests |-> <<>>]

IdleFetch ==
  /\ listing = [count |-> 0, pagination |-> FALSE]
  /\ pf = IdleFetchCall

NoPayload ==
  [success |-> TRUE, error |-> <<>>, message |-> <<>>, toolName |-> "",
   arguments |-> "omitted"]

IdleDispatch ==
  dp = [pc |-> "idle", name |-> "", args |-> "undefined", undeclared |-> FALSE,
        outcome |-> "none", routedTo |-> "none", invoked |-> FALSE,
        requestPath |-> "none", forwarded |-> FALSE,
        thrown |-> FALSE, thrownMessage |-> <<>>,
        response |-> [isError |-> FALSE, payload |-> NoPayload]]

\* visited lists the ids currentGroup has had, in the order of the walk.
IdlePath ==
  gp = [pc |-> "idle", groupId |-> 0, cur |-> 0, path |-> <<>>, visited |-> <<>>]

\* The payload handleCreateTodosForNote builds: success, created, failed.
BulkPayload(created, failed) ==
  [success |-> TRUE, created |-> created, failed |-> failed]

IdleBulk ==
  bt = [pc |-> "idle", todoTexts |-> "array", n |-> 0, startingLineNumber |-> 0,
        i |-> 0, results |-> <<>>, thrown |-> FALSE,
        response |-> [isError |-> FALSE, payload |-> BulkPayload(0, 0)]]

\* A parentId argument: undefined, null, or the id of a group.
ParentArg(kind, id) == [kind |-> kind, id |-> id]

IdleRoot ==
  rg = [pc |-> "idle", op |-> "none", parentId |-> ParentArg("undefined", 0),
        query |-> [parentId |-> ParentArg("undefined", 0)],
        result |-> [success |-> TRUE, data |-> <<>>]]

\* No workspace: null, or the undefined of a find that matched nothing.
NoWorkspace == [id |-> 0, name |-> "", isDefault |-> FALSE]

\* calls counts the tool calls made so far; switched is the currentWorkspaceId
\* of the last successful switch_workspace answer, 0 before any; currentCount
\* and remainingSlots are those of the last can_create_workspace answer.
IdleWorkspaceCall ==
  [pc |-> "idle", op |-> "none", name |-> "", workspaceId |-> 0,
   confirmDelete |-> "undefined", canCreate |-> FALSE, listedCount |-> 0,
   found |-> NoWorkspace, reqs |-> <<>>,
   result |-> [success |-> TRUE, data |-> NoWorkspace], calls |-> 0, switched |-> 0,
   currentCount |-> 0, remainingSlots |-> 0]

IdleWorkspaces ==
  /\ ws = [list |-> <<>>, nextId |-> 1]
  /\ wc = IdleWorkspaceCall

IdleFind ==
  fb = [pc |-> "idle", kind |-> "note", id |-> 0, workspaceId |-> "undefined",
        limit |-> 0, listed |-> 0, listOk |-> FALSE,
        result |-> [success |-> TRUE, data |-> 0]]

\* No append call: nothing read, nothing sent.
IdleAppend ==
  ap = [pc |-> "idle", op |-> "none", existing |-> <<>>, content |-> <<>>,
        read |-> "none", updates |-> <<>>, success |-> FALSE]

\* No toggleTodo call.  todoId is the place of the todo in the remote listing,
\* completed its value in the remote service, original that value before the
\* first call; updates are the PUT /todo requests sent.
IdleToggle ==
  tg = [pc |-> "idle", todoId |-> 0, completed |-> FALSE, original |-> FALSE,
        seen |-> FALSE, listOk |-> FALSE, found |-> FALSE, updates |-> <<>>,
        calls |-> 0]

\* An apiToken: undefined, or a string.
Token(kind, value) == [kind |-> kind, value |-> value]

\* The Authorization entry of baseHeaders: absent, or a string.
NoHeader == [present |-> FALSE, value |-> ""]

\* No client constructed yet.
IdleConfig ==
  cf = [pc |-> "unbuilt", apiToken |-> Token("undefined", ""),
        Authorization |-> NoHeader, calls |-> <<>>]

IdleHelpers ==
  /\ IdleAppend
  /\ IdleToggle
  /\ IdleConfig

IdleFacades ==
  /\ IdleBulk
  /\ IdleRoot
  /\ IdleWorkspaces
  /\ IdleFind
  /\ IdleHelpers

\* The state of the earlier sections.
coreVars == <<groups, treeVars, gp, remoteVars, cl, fetchVars, dp, helperVars>>

\* The state of every section but the helper methods and the configuration.
baseVars ==
  <<groups, treeVars, gp, remoteVars, cl, fetchVars, dp, bt, rg, ws, wc, fb>>

InitTree ==
  /\ groups \in Snapshots
  /\ IdleTree
  /\ IdlePath
  /\ IdleRemote
  /\ IdleClient
  /\ IdleFetch
  /\ IdleDispatch
  /\ IdleFacades

\* getGroupTree on the snapshot, and on the same snapshot in another order.
BuildTree ==
  /\ treePc = "input"
  /\ \E s \in Shuffles(groups) :
       /\ shuffled' = s
       /\ forest2' = buildGroupTree(s)
  /\ forest' = buildGroupTree(groups)
  /\ treePc' = "built"
  /\ UNCHANGED <<facadeVars, groups, gp, remoteVars, cl, fetchVars, dp>>

NextTree == BuildTree

SpecTree == InitTree /\ [][NextTree]_vars

(***************************************************************************)
(* Claims about buildGroupTree.                                            *)
(***************************************************************************)
PosIn(gs, id) == CHOOSE i \in DOMAIN gs : gs[i].id = id

\* Groups with a parentId that names no group of the list.
Orphans(gs) ==
  {gs[i].id : i \in {j \in DOMAIN gs :
                       gs[j].parentId # NoParent /\ gs[j].parentId \notin IdsOf(gs)}}

HoldersOf(f, id) == {p \in DOMAIN f.children : id \in Range(f.children[p])}

\* C1: every group whose parentId is set but names no group of the list is a
\* root of the returned forest, and every non-root node of the forest is in
\* the children list of exactly the node whose id is its parentId.
C1_OrphansAreRootsAndParentsMatch ==
  treePc = "built" =>
    /\ \A id \in Orphans(groups) : id \in Range(forest.roots)
    /\ \A id \in Reachable(forest) \ Range(forest.roots) :
         HoldersOf(forest, id) = {forest.parentId[id]}

SiblingNamesDistinct(gs) ==
  \A i, j \in DOMAIN gs :
    (i # j /\ gs[i].parentId = gs[j].parentId) => gs[i].name # gs[j].name

\* C2: for a list with pairwise distinct sibling names, the forest built from
\* any rearrangement of the list is identical to the forest built from the
\* list: same roots, same children, same level and path on every node.
C2_DeterministicUnderReordering ==
  (treePc = "built" /\ SiblingNamesDistinct(groups)) =>
    ForestView(forest) = ForestView(forest2)

\* A list of sibling nodes is in ascending name order, equal names in the
\* order of the input list gs.
SiblingsOrdered(f, gs, nodes) ==
  \A i, j \in DOMAIN nodes :
    i < j =>
      /\ localeCompare(f.name[nodes[i]], f.name[nodes[j]]) <= 0
      /\ f.name[nodes[i]] = f.name[nodes[j]] => PosIn(gs, nodes[i]) < PosIn(gs, nodes[j])

ForestOrdered(f, gs) ==
  /\ SiblingsOrdered(f, gs, f.roots)
  /\ \A id \in Reachable(f) : SiblingsOrdered(f, gs, f.children[id])

\* C7: in every returned forest the root list and every children list are in
\* ascending name order, and nodes with equal names keep their input order.
C7_SiblingsSortedStable ==
  treePc = "built" => ForestOrdered(forest, groups) /\ ForestOrdered(forest2, shuffled)

\* A forest whose roots were reordered by the sort and hold two equal names.
C7_Witness ==
  /\ treePc = "built"
  /\ Len(forest2.roots) = 3
  /\ shuffled[1].parentId = NoParent /\ shuffled[1].name = "b"
  /\ forest2.roots[1] # shuffled[1].id
  /\ forest2.name[forest2.roots[1]] = forest2.name[forest2.roots[2]]

(***************************************************************************)
(* GroupsApi.getGroupPath behind get_group_path, one loop iteration per    *)
(* step.  cur is the id of currentGroup, 0 when it is undefined.           *)
(***************************************************************************)
\* The longest walk the model follows; an acyclic walk needs at most MaxGroups.
MaxWalk == MaxGroups + 2

\* groupMap.get(id)
groupMapGet(gs, id) == IF id \in IdsOf(gs) THEN id ELSE 0

\* A walk that appends instead of prepending.
pushName(path, name) == Append(path, name)

\* path.unshift(currentGroup.name)
unshiftName(path, name) == <<name>> \o path

\* getAllGroupsInWorkspace throws: the listing failed.
getGroupPath_throws ==
  /\ gp.pc = "idle"
  /\ gp' = [gp EXCEPT !.pc = "thrown"]
  /\ UNCHANGED <<facadeVars, groups, treeVars, remoteVars, cl, fetchVars, dp>>

\* getAllGroupsInWorkspace returns the snapshot; currentGroup = groupMap.get(groupId)
getGroupPath_start ==
  /\ gp.pc = "idle"
  /\ \E groupId \in 1..(MaxGroups + 1) :
       gp' = [pc |-> "walk", groupId |-> groupId,
              cur |-> groupMapGet(groups, groupId), path |-> <<>>,
              visited |-> <<>>]
  /\ UNCHANGED <<facadeVars, groups, treeVars, remoteVars, cl, fetchVars, dp>>

\* while (currentGroup) { unshift; currentGroup = parentId ? get(parentId) : undefined }
getGroupPath_step ==
  /\ gp.pc = "walk"
  /\ gp.cur # 0
  /\ Len(gp.path) < MaxWalk
  /\ LET g == GroupOf(groups, gp.cur)
     IN gp' = [gp EXCEPT
                 !.path = unshiftName(gp.path, g.name),
                 !.visited = Append(gp.visited, gp.cur),
                 !.cur = IF g.parentId # NoParent
                         THEN groupMapGet(groups, g.parentId) ELSE 0]
  /\ UNCHANGED <<facadeVars, groups, treeVars, remoteVars, cl, fetchVars, dp>>

\* return path
getGroupPath_return ==
  /\ gp.pc = "walk"
  /\ gp.cur = 0
  /\ gp' = [gp EXCEPT !.pc = "returned"]
  /\ UNCHANGED <<facadeVars, groups, treeVars, remoteVars, cl, fetchVars, dp>>

InitPath ==
  /\ groups \in Snapshots
  /\ IdleTree
  /\ IdlePath
  /\ IdleRemote
  /\ IdleClient
  /\ IdleFetch
  /\ IdleDispatch
  /\ IdleFacades

NextPath ==
  \/ getGroupPath_throws
  \/ getGroupPath_start
  \/ getGroupPath_step
  \/ getGroupPath_return

SpecPath == InitPath /\ [][NextPath]_vars

\* The names from the root of the parent chain of id down to id itself.
RECURSIVE ChainNames(_, _, _)
ChainNames(gs, id, fuel) ==
  IF id \notin IdsOf(gs) \/ fuel = 0 THEN <<>>
  ELSE Append(ChainNames(gs, GroupOf(gs, id).parentId, fuel - 1), GroupOf(gs, id).name)

\* C6: getGroupPath returns the names on the parent chain of groupId, root
\* first and the group's own name last: [name] for a group with no parent or
\* with a parentId absent from the snapshot, and the empty sequence, not an
\* error, when groupId is not in the snapshot.
C6_PathIsParentChain ==
  gp.pc = "returned" =>
    /\ gp.path = ChainNames(groups, gp.groupId, MaxWalk)
    /\ gp.groupId \notin IdsOf(groups) => gp.path = <<>>
    /\ (gp.groupId \in IdsOf(groups)
        /\ GroupOf(groups, gp.groupId).parentId \notin IdsOf(groups))
         => gp.path = <<GroupOf(groups, gp.groupId).name>>

\* A returned path of a group two levels below a root, names all told apart.
C6_Witness ==
  /\ gp.pc = "returned"
  /\ gp.path = <<"b", "a", "b">>
  /\ GroupOf(groups, gp.groupId).name = "b"

(***************************************************************************)
(* GroupsApi.createGroupPath against the remote service, one remote call   *)
(* per step.  The remote holds one workspace; a listing requested without  *)
(* a sort comes in the remote's own order, oldest or newest first.         *)
(***************************************************************************)
MaxPath == 2

MaxRemote == 2

PathNames == {"a", "b"}

ErrorCodes == {"NETWORK_ERROR", "INTERNAL_ERROR"}

\* ApiError responses of SidvyApiClient.request
ErrorResponses ==
  {[success |-> FALSE, error |-> [code |-> c, message |-> "request failed"]] :
     c \in ErrorCodes}

ServerOrders == {"createdAt:asc", "createdAt:desc"}

PathSeqs == UNION {[1..n -> PathNames] : n \in 0..MaxPath}

\* The remote's groups: a forest, every parent created before its children.
RemoteInits ==
  UNION {{r \in [1..n -> [id : 1..MaxRemote, name : PathNames,
                          parentId : 0..MaxRemote]] :
            \A i \in 1..n : r[i].id = i /\ r[i].parentId < i} : n \in 0..MaxRemote}

Reverse(q) == [i \in DOMAIN q |-> q[Len(q) + 1 - i]]

NoGroup == [id |-> 0, name |-> "", parentId |-> NoParent]

\* GET /group: listGroups puts parentId in the query only when it is defined
\* (groups.ts:24); the remote filters by the parameters it receives.
listGroups(rem, order, parentId) ==
  LET matching == SelectSeq(rem, LAMBDA g : parentId = NoParent \/ g.parentId = parentId)
  IN IF order = "createdAt:asc" THEN matching ELSE Reverse(matching)

\* existingGroupsResponse.data.find((g) => g.name === groupName)
findByName(list, name) ==
  IF \E i \in DOMAIN list : list[i].name = name
  THEN list[CHOOSE i \in DOMAIN list :
              /\ list[i].name = name
              /\ \A j \in DOMAIN list : list[j].name = name => i <= j]
  ELSE NoGroup

\* A remote that puts every new group at the root.
createGroupAtRoot(rem, name, parentId) ==
  [id |-> Len(rem) + 1, name |-> name, parentId |-> NoParent]

\* POST /group: the remote assigns the id.
createGroup(rem, name, parentId) ==
  [id |-> Len(rem) + 1, name |-> name, parentId |-> parentId]

\* A failure replaced by an error of createGroupPath's own.
wrapFailure(resp) ==
  [success |-> FALSE,
   error |-> [code |-> "INTERNAL_ERROR", message |-> "could not create group path"]]

\* return existingGroupsResponse / return createResponse
returnFailure(resp) == resp

\* createdGroups.push(existingGroup); currentParentId = existingGroup.id; next name
pushGroup(c, g) ==
  LET created == Append(c.createdGroups, g)
  IN IF c.i = Len(c.path)
     THEN [c EXCEPT !.createdGroups = created, !.currentParentId = g.id,
                    !.pc = "done", !.result = [success |-> TRUE, data |-> created]]
     ELSE [c EXCEPT !.createdGroups = created, !.currentParentId = g.id,
                    !.i = c.i + 1, !.pc = "list"]

logRequest(c, op, resp) ==
  Append(c.reqs, [op |-> op, parentId |-> c.currentParentId,
                  name |-> IF op = "create" THEN c.path[c.i] ELSE "", resp |-> resp])

\* createGroupPath(path, workspaceId) is called.
createGroupPath_call(p) ==
  /\ cg[p].pc = "idle"
  /\ \E path \in PathSeqs :
       cg' = [cg EXCEPT ![p] =
                IF path = <<>>
                THEN [IdleCall EXCEPT !.pc = "done", !.startCount = Len(remote)]
                ELSE [IdleCall EXCEPT !.pc = "list", !.path = path, !.i = 1,
                                      !.startCount = Len(remote)]]
  /\ UNCHANGED <<facadeVars, groups, treeVars, gp, remote, serverOrder, cl, fetchVars, dp>>

\* await this.listGroups({workspaceId, parentId: currentParentId}) fails.
createGroupPath_listFails(p) ==
  /\ cg[p].pc = "list"
  /\ \E resp \in ErrorResponses :
       cg' = [cg EXCEPT ![p] = [cg[p] EXCEPT !.pc = "failed",
                                  !.result = returnFailure(resp),
                                  !.reqs = logRequest(cg[p], "list", resp)]]
  /\ UNCHANGED <<facadeVars, groups, treeVars, gp, remote, serverOrder, cl, fetchVars, dp>>

\* The listing succeeds: reuse the group found by name, or go on to create it.
createGroupPath_list(p) ==
  /\ cg[p].pc = "list"
  /\ LET c == cg[p]
         data == listGroups(remote, serverOrder, c.currentParentId)
         logged == [c EXCEPT !.reqs = logRequest(c, "list", [success |-> TRUE, data |-> data])]
         existingGroup == findByName(data, c.path[c.i])
     IN cg' = [cg EXCEPT ![p] =
                 IF existingGroup # NoGroup
                 THEN pushGroup(logged, existingGroup)
                 ELSE [logged EXCEPT !.pc = "create"]]
  /\ UNCHANGED <<facadeVars, groups, treeVars, gp, remote, serverOrder, cl, fetchVars, dp>>

\* await this.createGroup({name, workspaceId, parentId: currentParentId}) fails.
createGroupPath_createFails(p) ==
  /\ cg[p].pc = "create"
  /\ \E resp \in ErrorResponses :
       cg' = [cg EXCEPT ![p] = [cg[p] EXCEPT !.pc = "failed",
                                  !.result = returnFailure(resp),
                                  !.reqs = logRequest(cg[p], "create", resp)]]
  /\ UNCHANGED <<facadeVars, groups, treeVars, gp, remote, serverOrder, cl, fetchVars, dp>>

\* The create succeeds: the remote holds the new group.
createGroupPath_create(p) ==
  /\ cg[p].pc = "create"
  /\ LET c == cg[p]
         g == createGroup(remote, c.path[c.i], c.currentParentId)
         logged == [c EXCEPT !.reqs = logRequest(c, "create", [success |-> TRUE, data |-> g])]
     IN /\ remote' = Append(remote, g)
        /\ cg' = [cg EXCEPT ![p] = pushGroup(logged, g)]
  /\ UNCHANGED <<facadeVars, groups, treeVars, gp, serverOrder, cl, fetchVars, dp>>

Returned(p) == cg[p].pc \in {"done", "failed"}

InitCreatePath ==
  /\ groups = <<>>
  /\ IdleTree
  /\ IdlePath
  /\ remote \in RemoteInits
  /\ serverOrder \in ServerOrders
  /\ cg = [p \in Procs |-> IdleCall]
  /\ IdleClient
  /\ IdleFetch
  /\ IdleDispatch
  /\ IdleFacades

\* Two calls one after the other, nothing else writing to the remote.
NextCreatePath ==
  \/ createGroupPath_call(1)
  \/ (Returned(1) /\ createGroupPath_call(2))
  \/ \E p \in Procs :
       \/ createGroupPath_listFails(p)
       \/ createGroupPath_list(p)
       \/ createGroupPath_createFails(p)
       \/ createGroupPath_create(p)

SpecCreatePath == InitCreatePath /\ [][NextCreatePath]_vars

IdsOfSeq(gs) == [i \in DOMAIN gs |-> gs[i].id]

CreateRequests(c) == SelectSeq(c.reqs, LAMBDA r : r.op = "create")

\* C3: when createGroupPath(path) succeeds and is called again with the same
\* path and no other writer in between, the second call returns the same
\* group ids, issues no create request and leaves the number of remote
\* groups unchanged.
C3_Idempotent ==
  (cg[1].pc = "done" /\ cg[2].pc = "done" /\ cg[2].path = cg[1].path) =>
    /\ IdsOfSeq(cg[2].result.data) = IdsOfSeq(cg[1].result.data)
    /\ CreateRequests(cg[2]) = <<>>
    /\ Len(remote) = cg[2].startCount

\* C8: when a list or create call fails at step k, createGroupPath returns
\* that failure unchanged, the failed request is the last one it issues (no
\* later list or create, no delete), and the groups it created at earlier
\* steps are still held by the remote.
C8_FailureAbortsWithoutRollback ==
  \A p \in Procs :
    cg[p].pc = "failed" =>
      LET n == Len(cg[p].reqs)
      IN /\ n >= 1
         /\ cg[p].reqs[n].resp \in ErrorResponses
         /\ cg[p].result = cg[p].reqs[n].resp
         /\ \A k \in 1..(n - 1) :
              /\ cg[p].reqs[k].resp.success
              /\ cg[p].reqs[k].op \in {"list", "create"}
              /\ cg[p].reqs[k].op = "create" =>
                   \E j \in DOMAIN remote : remote[j] = cg[p].reqs[k].resp.data

\* A call that created a group at its first step and failed at its second.
C8_Witness ==
  /\ cg[1].pc = "failed"
  /\ cg[1].i = 2
  /\ Len(CreateRequests(cg[1])) >= 1
  /\ CreateRequests(cg[1])[1].resp.success
  /\ Len(remote) = 2

(***************************************************************************)
(* SidvyApiClient.request, from the fetch to the resolved value.  The      *)
(* client is configured with a base URL that parses.                       *)
(***************************************************************************)
Methods == {"GET", "POST", "PUT", "DELETE"}

\* The bodies a response can carry.
Bodies ==
  {Value("unparsable", FALSE, "absent", "absent", "absent", "absent"), NullValue}
  \cup {Value("scalar", t, "absent", "absent", "absent", "absent") : t \in BOOLEAN}
  \cup {Value("array", TRUE, "absent", "absent", "absent", "absent")}
  \cup {Value("object", TRUE, sc, d, e, m) :
          sc \in {"absent", "true", "false"},
          d \in {"absent", "falsy", "truthy"},
          e \in {"absent", "codeAndMessage", "other"},
          m \in {"absent", "present"}}

\* await response.json().catch(() => null)
responseJson(body) == IF body.kind = "unparsable" THEN NullValue ELSE body

\* The value request resolves to for a response (client.ts:59-85).
requestResult(ok, body) ==
  LET responseData == responseJson(body)
  IN IF ~ok
     THEN IF responseData.truthy
          THEN responseData
          ELSE Value("object", TRUE, "false", "absent", "codeAndMessage", "absent")
     ELSE Value("object", TRUE, "true", "truthy", "absent", responseData.meta)

\* The value request resolves to when fetch rejects (client.ts:86-98).
requestCatch == Value("object", TRUE, "false", "absent", "codeAndMessage", "absent")

\* get / post / put / delete: request builds the URL and calls fetch.
request_fetch ==
  /\ cl.pc = "idle"
  /\ \E method \in Methods :
       cl' = [cl EXCEPT !.pc = "fetching", !.method = method, !.sent = cl.sent + 1]
  /\ UNCHANGED <<facadeVars, groups, treeVars, gp, remoteVars, fetchVars, dp>>

\* The remote answers with a status and a body.
request_response ==
  /\ cl.pc = "fetching"
  /\ \E ok \in BOOLEAN, body \in Bodies :
       cl' = [cl EXCEPT !.pc = "resolved",
                        !.outcome = IF ok THEN "2xx" ELSE "non-2xx",
                        !.body = body,
                        !.result = requestResult(ok, body)]
  /\ UNCHANGED <<facadeVars, groups, treeVars, gp, remoteVars, fetchVars, dp>>

\* fetch rejects: the remote cannot be reached.
request_networkError ==
  /\ cl.pc = "fetching"
  /\ cl' = [cl EXCEPT !.pc = "resolved", !.outcome = "fetch rejects",
                      !.result = requestCatch]
  /\ UNCHANGED <<facadeVars, groups, treeVars, gp, remoteVars, fetchVars, dp>>

InitClient ==
  /\ groups = <<>>
  /\ IdleTree
  /\ IdlePath
  /\ IdleRemote
  /\ IdleClient
  /\ IdleFetch
  /\ IdleDispatch
  /\ IdleFacades

NextClient ==
  \/ request_fetch
  \/ request_response
  \/ request_networkError

SpecClient == InitClient /\ [][NextClient]_vars

IsSuccessVariant(v) ==
  v.kind = "object" /\ v.success = "true" /\ v.data # "absent" /\ v.error = "absent"

IsFailureVariant(v) ==
  v.kind = "object" /\ v.success = "false" /\ v.error = "codeAndMessage"
  /\ v.data = "absent"

\* C4: request never rejects; for every remote outcome it resolves to a value
\* that is either success=true with data and no error, or success=false with
\* error{code,message} and no data.
C4_ResolvesToOneVariant ==
  /\ cl.pc \in {"idle", "fetching", "resolved"}
  /\ cl.pc = "resolved" => IsSuccessVariant(cl.result) \/ IsFailureVariant(cl.result)

(***************************************************************************)
(* The paginated fetch loops getAllGroupsInWorkspace,                      *)
(* getAllNotesInWorkspace, getAllTodosInWorkspace and getAllWorkspaces,    *)
(* one page request per step.  The remote holds the items 1..count in its  *)
(* order and serves the requested page of the requested size, with or      *)
(* without pagination metadata.                                            *)
(***************************************************************************)
MaxItems == 250

Fetches == {"groups", "notes", "todos", "workspaces"}

\* const limit = 100 (groups, notes, todos); const limit = 10 (workspaces)
limitOf(which) == IF which = "workspaces" THEN 10 ELSE 100

Min(a, b) == IF a < b THEN a ELSE b

\* The remote's page: items (page-1)*limit+1 .. page*limit of 1..count.
pageItems(count, page, limit) ==
  LET first == (page - 1) * limit + 1
      last == Min(page * limit, count)
  IN IF first > last THEN <<>> ELSE [i \in 1..(last - first + 1) |-> first + i - 1]

\* meta.pagination.totalPages
totalPages(count, limit) == (count + limit - 1) \div limit

\* A loop that, without metadata, goes on after any page that is not empty.
hasMoreUntilEmpty(pagination, page, count, limit, data) ==
  IF pagination THEN page < totalPages(count, limit) ELSE Len(data) > 0

\* A loop that asks for one page more than the metadata announces.
hasMoreOffByOne(pagination, page, count, limit, data) ==
  IF pagination THEN page <= totalPages(count, limit) ELSE Len(data) = limit

\* hasMore = page < totalPages with metadata, data.length === limit without
hasMoreAfter(pagination, page, count, limit, data) ==
  IF pagination THEN page < totalPages(count, limit) ELSE Len(data) = limit

\* getAll...(workspaceId) is called.
fetchAll_call ==
  /\ pf.pc = "idle"
  /\ \E which \in Fetches : pf' = [IdleFetchCall EXCEPT !.pc = "loop", !.which = which]
  /\ UNCHANGED <<facadeVars, groups, treeVars, gp, remoteVars, cl, listing, dp>>

\* One iteration of while (hasMore): the page is listed and appended.
fetchAll_page ==
  /\ pf.pc = "loop"
  /\ pf.hasMore
  /\ LET limit == limitOf(pf.which)
         data == pageItems(listing.count, pf.page, limit)
     IN pf' = [pf EXCEPT
                 !.requests = Append(@, pf.page),
                 !.all = @ \o data,
                 !.hasMore = hasMoreAfter(listing.pagination, pf.page,
                                          listing.count, limit, data),
                 !.page = @ + 1]
  /\ UNCHANGED <<facadeVars, groups, treeVars, gp, remoteVars, cl, listing, dp>>

\* The page request fails: throw new Error(getErrorMessage(response)).
fetchAll_throws ==
  /\ pf.pc = "loop"
  /\ pf.hasMore
  /\ pf' = [pf EXCEPT !.requests = Append(@, pf.page), !.pc = "thrown"]
  /\ UNCHANGED <<facadeVars, groups, treeVars, gp, remoteVars, cl, listing, dp>>

\* return all...
fetchAll_return ==
  /\ pf.pc = "loop"
  /\ ~pf.hasMore
  /\ pf' = [pf EXCEPT !.pc = "returned"]
  /\ UNCHANGED <<facadeVars, groups, treeVars, gp, remoteVars, cl, listing, dp>>

InitFetch ==
  /\ groups = <<>>
  /\ IdleTree
  /\ IdlePath
  /\ IdleRemote
  /\ IdleClient
  /\ listing \in [count : 0..MaxItems, pagination : BOOLEAN]
  /\ pf = IdleFetchCall
  /\ IdleDispatch
  /\ IdleFacades

NextFetch ==
  \/ fetchAll_call
  \/ fetchAll_page
  \/ fetchAll_throws
  \/ fetchAll_return

SpecFetch == InitFetch /\ [][NextFetch]_vars

\* C5: against a remote holding N items and serving them page by page, the
\* fetch returns the N items once each, in the remote's order; for N = 250
\* and page size 100 it requests exactly the pages 1, 2, 3 in that order.
C5_FetchReturnsAllItems ==
  pf.pc = "returned" =>
    /\ pf.all = [i \in 1..listing.count |-> i]
    /\ (listing.count = 250 /\ limitOf(pf.which) = 100) => pf.requests = <<1, 2, 3>>

\* The fetch of 250 items with page size 100 has returned.
C5_Witness ==
  /\ pf.pc = "returned"
  /\ listing.count = 250
  /\ limitOf(pf.which) = 100
  /\ Len(pf.all) = 250
  /\ Len(pf.requests) = 3

(***************************************************************************)
(* The CallTool handler of SidvyMcpServer and the handleToolCall of the    *)
(* four registered tool classes.  What a facade does is an outcome:        *)
(* "success" (a Success with data), "successNull" (a Success whose data is *)
(* null: the id was not in the listing), "failure" (a Failure),            *)
(* "failureNoMessage" (a Failure whose error.message is the empty string)  *)
(* or "throws".  A text is the sequence of its parts, <<>> the empty text. *)
(***************************************************************************)
NotesToolNames ==
  {"list_notes", "create_note", "update_note", "delete_note", "search_notes",
   "get_note", "get_recent_notes", "append_to_note"}

GroupsToolNames ==
  {"list_groups", "create_group", "update_group", "delete_group", "get_group_tree",
   "get_root_groups", "get_child_groups", "get_group_path", "move_group",
   "create_group_path"}

TodosToolNames ==
  {"list_todos", "create_todo", "update_todo", "delete_todo", "toggle_todo",
   "complete_todo", "uncomplete_todo", "get_pending_todos", "get_completed_todos",
   "get_todos_for_note", "get_todo_stats", "search_todos", "create_todos_for_note"}

WorkspaceToolNames ==
  {"list_workspaces", "create_workspace", "update_workspace", "delete_workspace",
   "get_workspace", "get_default_workspace", "get_workspace_by_name",
   "get_workspace_stats", "can_create_workspace", "switch_workspace",
   "rename_workspace"}

\* CalendarTools.getTools: the server constructs no CalendarTools.
CalendarToolNames ==
  {"get_daily_note", "update_daily_note", "append_to_daily_note", "get_weekly_note",
   "update_weekly_note", "append_to_weekly_note"}

RegisteredToolNames ==
  NotesToolNames \cup GroupsToolNames \cup TodosToolNames \cup WorkspaceToolNames

ToolNames == RegisteredToolNames \cup CalendarToolNames \cup {"no_such_tool"}

\* Handlers that return {success: false, error} when the facade's data is null.
NotFoundTools ==
  {"get_note", "get_workspace", "get_default_workspace", "get_workspace_by_name",
   "switch_workspace"}

\* Handlers that read a field of response.data although the facade may
\* return a Success whose data is null.
NullDataTools ==
  {"append_to_note", "toggle_todo", "get_workspace_stats", "delete_workspace"}

\* Handlers around a facade that returns a plain value or throws.
ThrowingFacadeTools ==
  {"get_group_tree", "get_group_path", "get_todo_stats", "can_create_workspace",
   "create_todos_for_note"}

\* Handlers that never read a property of their argument object.
WholeArgsTools ==
  {"list_notes", "create_note", "update_note", "delete_note", "list_groups",
   "create_group", "update_group", "delete_group", "list_todos", "create_todo",
   "update_todo", "delete_todo", "list_workspaces", "update_workspace",
   "get_default_workspace", "can_create_workspace"}

outcomesOf(name) ==
  IF name \in ThrowingFacadeTools THEN {"success", "throws"}
  ELSE IF name \in NotFoundTools \cup NullDataTools
       THEN {"success", "successNull", "failure", "failureNoMessage", "throws"}
       ELSE {"success", "failure", "failureNoMessage", "throws"}

notFoundText(name) ==
  CASE name = "get_note" -> <<"Note not found">>
    [] name = "get_default_workspace" -> <<"No default workspace found">>
    [] name = "get_workspace_by_name" -> <<"Workspace with name ", "args.name", " not found">>
    [] OTHER -> <<"Workspace not found">>

Returns(payload) == [thrown |-> FALSE, message |-> <<>>, payload |-> payload]

Throws(message) == [thrown |-> TRUE, message |-> message, payload |-> NoPayload]

\* handleToolCall(name, args) of a tool class and the handler it selects.
handleToolCall(name, args, outcome) ==
  IF args = "undefined" /\ name \notin WholeArgsTools
  THEN Throws(<<"Cannot read properties of undefined">>)
  ELSE CASE outcome = "throws" -> Throws(<<"facade error">>)
         [] outcome = "failure" -> Throws(<<"response.error.message">>)
         [] outcome = "failureNoMessage" -> Throws(<<>>)
         [] outcome = "successNull" ->
              IF name \in NotFoundTools
              THEN Returns([NoPayload EXCEPT !.success = FALSE,
                                             !.error = notFoundText(name)])
              ELSE Throws(<<"Cannot read properties of null">>)
         [] OTHER -> Returns([NoPayload EXCEPT !.success = TRUE])

\* The routing of the CallTool handler: the first tool class that declares name.
route(name, args, outcome) ==
  IF name \in RegisteredToolNames
  THEN handleToolCall(name, args, outcome)
  ELSE Throws(<<"Unknown tool: ", name>>)

\* The tool class whose getTools() declares name, if the server built one.
toolClassOf(name) ==
  CASE name \in NotesToolNames -> "NotesTools"
    [] name \in GroupsToolNames -> "GroupsTools"
    [] name \in TodosToolNames -> "TodosTools"
    [] name \in WorkspaceToolNames -> "WorkspaceTools"
    [] OTHER -> "none"

\* The resource path the facade of a tool class sends its requests to.
pathOf(class) ==
  CASE class = "NotesTools" -> "/note"
    [] class = "GroupsTools" -> "/group"
    [] class = "TodosTools" -> "/todo"
    [] class = "WorkspaceTools" -> "/workspace"
    [] OTHER -> "none"

\* Handlers that hand their argument object to a facade which sends it as
\* the request body: JSON.stringify(data) of client.post / put / delete.
BodyArgsTools ==
  {"create_note", "update_note", "delete_note", "create_group", "update_group",
   "delete_group", "create_todo", "update_todo", "delete_todo", "update_workspace"}

\* The handler gets as far as its facade call: the argument object is there,
\* or the handler reads none of its properties.
invokesFacade(name, args) ==
  /\ name \in RegisteredToolNames
  /\ args = "present" \/ name \in WholeArgsTools

\* An undeclared property of the arguments ends up in a request body.
forwardsUndeclared(name, args, undeclared, outcome) ==
  /\ undeclared
  /\ invokesFacade(name, args)
  /\ name \in BodyArgsTools
  /\ outcome # "throws"

\* error.message || error.toString() || 'Unknown error occurred'
errorText(message) == IF message # <<>> THEN message ELSE <<"Error">>

\* A catch block that leaves the tool name and the arguments out.
catchResponseBare(name, args, message) ==
  [isError |-> TRUE,
   payload |-> [NoPayload EXCEPT !.success = FALSE, !.error = errorText(message)]]

\* catch (error): the structured error content, isError: true
catchResponse(name, args, message) ==
  [isError |-> TRUE,
   payload |-> [success |-> FALSE, error |-> errorText(message), message |-> <<>>,
                toolName |-> name,
                arguments |-> IF args = "present" THEN "present" ELSE "omitted"]]

\* return {content: [{type: 'text', text: JSON.stringify(result)}]}
resultResponse(payload) == [isError |-> FALSE, payload |-> payload]

\* A CallTool request arrives: a tool name and an argument object, which may
\* hold a property the tool's inputSchema does not declare.  The handler
\* checks the arguments against no schema.
callTool_request ==
  /\ dp.pc = "idle"
  /\ \E name \in ToolNames, args \in {"present", "undefined"},
        undeclared \in BOOLEAN :
       /\ undeclared => args = "present"
       /\ dp' = [dp EXCEPT !.pc = "handling", !.name = name, !.args = args,
                           !.undeclared = undeclared]
  /\ UNCHANGED <<facadeVars, groups, treeVars, gp, remoteVars, cl, fetchVars>>

\* The try block runs to its return or to a throw, and the response is built.
callTool_respond ==
  /\ dp.pc = "handling"
  /\ \E outcome \in outcomesOf(dp.name) :
       LET r == route(dp.name, dp.args, outcome)
       IN dp' = [dp EXCEPT
                   !.pc = "responded",
                   !.outcome = outcome,
                   !.routedTo = toolClassOf(dp.name),
                   !.invoked = invokesFacade(dp.name, dp.args),
                   !.requestPath = IF invokesFacade(dp.name, dp.args)
                                   THEN pathOf(toolClassOf(dp.name)) ELSE "none",
                   !.forwarded = forwardsUndeclared(dp.name, dp.args, dp.undeclared,
                                                    outcome),
                   !.thrown = r.thrown,
                   !.thrownMessage = r.message,
                   !.response = IF r.thrown
                                THEN catchResponse(dp.name, dp.args, r.message)
                                ELSE resultResponse(r.payload)]
  /\ UNCHANGED <<facadeVars, groups, treeVars, gp, remoteVars, cl, fetchVars>>

InitDispatch ==
  /\ groups = <<>>
  /\ IdleTree
  /\ IdlePath
  /\ IdleRemote
  /\ IdleClient
  /\ IdleFetch
  /\ IdleDispatch
  /\ IdleFacades

NextDispatch ==
  \/ callTool_request
  \/ callTool_respond

SpecDispatch == InitDispatch /\ [][NextDispatch]_vars

CarriesCall(payload) ==
  /\ payload.toolName = dp.name
  /\ dp.args = "present" => payload.arguments = "present"

\* C9: the CallTool handler lets no fault escape: every request, for a known
\* or an unknown tool, ends in a response, and when anything was thrown the
\* response has isError = true and a payload with success = false, the error
\* message, and the original tool name and arguments.
C9_FaultsBecomeErrorResponses ==
  /\ dp.pc \in {"idle", "handling", "responded"}
  /\ (dp.pc = "responded" /\ dp.thrown) =>
       /\ dp.response.isError
       /\ dp.response.payload.success = FALSE
       /\ dp.response.payload.error # <<>>
       /\ dp.thrownMessage # <<>> => dp.response.payload.error = dp.thrownMessage
       /\ CarriesCall(dp.response.payload)

\* A fault thrown by a facade of a registered tool has been answered.
C9_Witness ==
  /\ dp.pc = "responded"
  /\ dp.name = "get_group_tree"
  /\ dp.args = "present"
  /\ dp.outcome = "throws"
  /\ dp.thrown
  /\ dp.response.isError

\* C10: every response payload carries a boolean success, and every payload
\* with success = false, the not-found outcomes included, also carries a
\* message and the original tool name and arguments.
C10_FailuresCarryMessageAndCall ==
  dp.pc = "responded" =>
    /\ dp.response.payload.success \in BOOLEAN
    /\ dp.response.payload.success = FALSE =>
         /\ dp.response.payload.error # <<>> \/ dp.response.payload.message # <<>>
         /\ CarriesCall(dp.response.payload)

(***************************************************************************)
(* create_todos_for_note: TodosApi.createTodosForNote inside               *)
(* TodosTools.handleCreateTodosForNote, one createTodo per step, and the   *)
(* response the CallTool handler builds from what the handler returns.     *)
(***************************************************************************)
MaxTodos == 3

\* The startingLineNumber arguments of the model; 0 stands for an absent one.
StartingLineNumbers == {0, 1, 2}

\* args.startingLineNumber || 1
startingLine(n) == IF n = 0 THEN 1 ELSE n

\* responses.filter((r) => this.client.isSuccessResponse(r))
successful(results) == SelectSeq(results, LAMBDA r : r.success)

\* responses.filter((r) => !this.client.isSuccessResponse(r))
failed(results) == SelectSeq(results, LAMBDA r : ~r.success)

\* return {success: true, todos, created, failed, message}
handleCreateTodosForNote(results) ==
  BulkPayload(Len(successful(results)), Len(failed(results)))

\* A create_todos_for_note request arrives: todoTexts is an array of n texts,
\* or is missing from the arguments.
createTodosForNote_call ==
  /\ bt.pc = "idle"
  /\ \E texts \in {"array", "undefined"}, n \in 0..MaxTodos,
        start \in StartingLineNumbers :
       /\ texts = "undefined" => n = 0
       /\ bt' = [bt EXCEPT !.pc = "creating", !.todoTexts = texts, !.n = n,
                           !.startingLineNumber = start]
  /\ UNCHANGED <<coreVars, rg, workspaceVars, fb>>

\* todoTexts.length of undefined throws; the handler rethrows and the CallTool
\* handler answers from its catch block.
createTodosForNote_throws ==
  /\ bt.pc = "creating"
  /\ bt.todoTexts = "undefined"
  /\ bt' = [bt EXCEPT
              !.pc = "responded",
              !.thrown = TRUE,
              !.response = catchResponse("create_todos_for_note", "present",
                                         <<"Cannot read properties of undefined">>)]
  /\ UNCHANGED <<coreVars, rg, workspaceVars, fb>>

\* One iteration of the loop: createTodo succeeds or fails, results.push(result).
createTodosForNote_createTodo ==
  /\ bt.pc = "creating"
  /\ bt.todoTexts = "array"
  /\ bt.i < bt.n
  /\ \E ok \in BOOLEAN :
       bt' = [bt EXCEPT
                !.i = bt.i + 1,
                !.results = Append(bt.results,
                                   [success |-> ok,
                                    lineNumber |-> startingLine(bt.startingLineNumber)
                                                     + bt.i])]
  /\ UNCHANGED <<coreVars, rg, workspaceVars, fb>>

\* The loop is over: the handler returns its payload, sent as a result.
handleCreateTodosForNote_return ==
  /\ bt.pc = "creating"
  /\ bt.todoTexts = "array"
  /\ bt.i = bt.n
  /\ bt' = [bt EXCEPT
              !.pc = "responded",
              !.response = resultResponse(handleCreateTodosForNote(bt.results))]
  /\ UNCHANGED <<coreVars, rg, workspaceVars, fb>>

IdleCore ==
  /\ groups = <<>>
  /\ IdleTree
  /\ IdlePath
  /\ IdleRemote
  /\ IdleClient
  /\ IdleFetch
  /\ IdleDispatch

InitBulk ==
  /\ IdleCore
  /\ IdleFacades

NextBulk ==
  \/ createTodosForNote_call
  \/ createTodosForNote_throws
  \/ createTodosForNote_createTodo
  \/ handleCreateTodosForNote_return

SpecBulk == InitBulk /\ [][NextBulk]_vars

\* C11: when at least one of the createTodo calls of create_todos_for_note
\* failed, the response is not a plain success: it does not carry
\* success = true with isError unset.
C11_NoPartialSuccessAsSuccess ==
  (bt.pc = "responded" /\ failed(bt.results) # <<>>) =>
    ~(bt.response.payload.success = TRUE /\ ~bt.response.isError)

(***************************************************************************)
(* Claims about the tool-call boundary of the dispatch.                    *)
(***************************************************************************)

\* C12: a call whose argument object holds a property the tool's inputSchema
\* does not declare is rejected at the boundary: it is answered with an
\* error, no facade operation is invoked for it and the undeclared property
\* is never forwarded in a request body.
C12_UndeclaredPropertyRejected ==
  (dp.pc = "responded" /\ dp.undeclared) =>
    /\ dp.response.isError
    /\ ~dp.invoked
    /\ dp.requestPath = "none"
    /\ ~dp.forwarded

\* C13: every documented calendar tool is callable through the server: a
\* call with its name is routed to CalendarTools and issues a request to
\* /daily or /weekly, and is not answered with 'Unknown tool'.
C13_CalendarToolsCallable ==
  (dp.pc = "responded" /\ dp.name \in CalendarToolNames /\ dp.args = "present") =>
    /\ dp.routedTo = "CalendarTools"
    /\ dp.requestPath \in {"/daily", "/weekly"}
    /\ dp.thrownMessage # <<"Unknown tool: ", dp.name>>

(***************************************************************************)
(* GroupsApi.getRootGroups, getChildGroups and a plain listGroups, from    *)
(* the parentId argument to the query string of GET /group and the         *)
(* remote's answer.  The remote honours the filters it receives: without a *)
(* parentId parameter it lists every group, with parentId=null the groups  *)
(* that have no parent, with parentId=<id> the children of that group.     *)
(***************************************************************************)

\* The operations and the parentId each hands to listGroups.
GroupListCalls ==
  {[op |-> "listGroups", parentId |-> ParentArg("undefined", 0)],
   [op |-> "getRootGroups", parentId |-> ParentArg("null", 0)]}
  \cup {[op |-> "getChildGroups", parentId |-> ParentArg("id", p)] :
          p \in 1..(MaxRemote + 1)}

\* listGroups: if (params.parentId !== undefined) queryParams.parentId = ...
queryParamsOf(parentId) ==
  IF parentId.kind # "undefined" THEN parentId ELSE ParentArg("undefined", 0)

\* request: a parameter is appended to the URL only when it is neither
\* undefined nor null.
searchParamsOf(param) ==
  IF param.kind # "undefined" /\ param.kind # "null"
  THEN param ELSE ParentArg("undefined", 0)

\* sort=name:asc on the names of the model, served by the remote.
sortByNameAsc(list) ==
  SelectSeq(list, LAMBDA g : g.name = "a") \o SelectSeq(list, LAMBDA g : g.name = "b")

\* The remote's answer to GET /group?parentId=...&sort=name:asc
remoteGroupList(rem, urlParentId) ==
  sortByNameAsc(
    CASE urlParentId.kind = "null" -> SelectSeq(rem, LAMBDA g : g.parentId = NoParent)
      [] urlParentId.kind = "id" -> listGroups(rem, "createdAt:asc", urlParentId.id)
      [] OTHER -> listGroups(rem, "createdAt:asc", NoParent))

\* The operation is called and the GET /group request is sent.
listGroups_request ==
  /\ rg.pc = "idle"
  /\ \E call \in GroupListCalls :
       rg' = [rg EXCEPT !.pc = "listing", !.op = call.op, !.parentId = call.parentId,
                        !.query = [parentId |->
                                     searchParamsOf(queryParamsOf(call.parentId))]]
  /\ UNCHANGED <<coreVars, bt, workspaceVars, fb>>

\* The remote answers with the groups the query selects.
listGroups_response ==
  /\ rg.pc = "listing"
  /\ rg' = [rg EXCEPT !.pc = "done",
                      !.result = [success |-> TRUE,
                                  data |-> remoteGroupList(remote, rg.query.parentId)]]
  /\ UNCHANGED <<coreVars, bt, workspaceVars, fb>>

\* The request fails; the operation returns the failure.
listGroups_fails ==
  /\ rg.pc = "listing"
  /\ \E resp \in ErrorResponses : rg' = [rg EXCEPT !.pc = "done", !.result = resp]
  /\ UNCHANGED <<coreVars, bt, workspaceVars, fb>>

InitRoot ==
  /\ groups = <<>>
  /\ IdleTree
  /\ IdlePath
  /\ remote \in RemoteInits
  /\ serverOrder \in ServerOrders
  /\ cg = [p \in Procs |-> IdleCall]
  /\ IdleClient
  /\ IdleFetch
  /\ IdleDispatch
  /\ IdleBulk
  /\ IdleRoot
  /\ IdleWorkspaces
  /\ IdleFind
  /\ IdleHelpers

NextRoot ==
  \/ listGroups_request
  \/ listGroups_response
  \/ listGroups_fails

SpecRoot == InitRoot /\ [][NextRoot]_vars

\* C15: get_root_groups returns only groups with no parent: the request of
\* getRootGroups carries the filter that selects root groups, so no group
\* with a parentId is in a successful result.
C15_RootGroupsOnly ==
  (rg.op = "getRootGroups" /\ rg.pc = "done" /\ rg.result.success) =>
    /\ rg.query.parentId.kind = "null"
    /\ \A i \in DOMAIN rg.result.data : rg.result.data[i].parentId = NoParent

(***************************************************************************)
(* The workspace tools against the remote service, one remote call per     *)
(* step: createWorkspaceIfPossible (create_workspace),                     *)
(* deleteWorkspaceWithConfirmation (delete_workspace),                     *)
(* handleCanCreateWorkspace (can_create_workspace), switchWorkspace        *)
(* (switch_workspace), and listNotes (list_notes) as a later tool call     *)
(* that may omit workspaceId.  Calls come one after the other and nothing  *)
(* else writes to the remote.  The remote accepts every POST /workspace it *)
(* does not fail, refuses to delete the default workspace, and serves a    *)
(* request that names no workspace from the default workspace.  A listing  *)
(* of the few workspaces of the model is a single page.                    *)
(***************************************************************************)
MaxCalls == 3

\* workspaces.length < 2: the number of workspaces a user may have
WorkspaceLimit == 2

WorkspaceNames == {"a", "A", "b"}

\* String.prototype.toLowerCase on the names of the model
toLowerCase(n) == IF n = "A" THEN "a" ELSE n

\* The remote's workspaces before the first call: at most two, the first one
\* the default workspace.
WorkspaceInits ==
  UNION {{l \in [1..n -> [id : 1..WorkspaceLimit, name : WorkspaceNames,
                          isDefault : BOOLEAN]] :
            \A i \in 1..n : l[i].id = i /\ l[i].isDefault = (i = 1)} :
         n \in 0..WorkspaceLimit}

NoError == [code |-> "", message |-> ""]

Failure(code, message) ==
  [success |-> FALSE, error |-> [code |-> code, message |-> message]]

Success(data) == [success |-> TRUE, data |-> data]

\* What a remote call comes to: it succeeds, or request resolves to an ApiError.
RemoteOutcomes ==
  {[failed |-> FALSE, error |-> NoError]}
  \cup {[failed |-> TRUE, error |-> r.error] : r \in ErrorResponses}

WorkspaceIds(list) == {list[i].id : i \in DOMAIN list}

\* response.data.find((w) => w.id === workspaceId)
findById(list, id) ==
  IF id \in WorkspaceIds(list)
  THEN list[CHOOSE i \in DOMAIN list : list[i].id = id]
  ELSE NoWorkspace

\* response.data.find((w) => w.name.toLowerCase() === name.toLowerCase())
findByLowerName(list, name) ==
  IF \E i \in DOMAIN list : toLowerCase(list[i].name) = toLowerCase(name)
  THEN list[CHOOSE i \in DOMAIN list :
              /\ toLowerCase(list[i].name) = toLowerCase(name)
              /\ \A j \in DOMAIN list :
                   toLowerCase(list[j].name) = toLowerCase(name) => i <= j]
  ELSE NoWorkspace

\* The workspace the remote takes for a request that may name none.
targetOf(list, workspaceId) ==
  IF workspaceId # 0 THEN workspaceId
  ELSE IF \E i \in DOMAIN list : list[i].isDefault
       THEN list[CHOOSE i \in DOMAIN list : list[i].isDefault].id
       ELSE 0

\* The request log of the current call: method, path, the workspaceId the
\* request carries (0 when it carries none), the workspace the remote takes
\* as the target, and how the request ended.
logWorkspaceRequest(method, path, workspaceId, target, out) ==
  Append(wc.reqs,
         [method |-> method, path |-> path, workspaceId |-> workspaceId,
          target |-> target,
          targetDefault |-> findById(ws.list, target).isDefault,
          failed |-> out.failed, error |-> out.error])

\* A limit check that lets a third workspace through.
canCreateLoose(list) == Len(list) <= WorkspaceLimit

\* canCreateWorkspace: return workspaces.length < 2
canCreate(list) == Len(list) < WorkspaceLimit

\* A default check that never fires.
isDefaultNever(w) == FALSE

\* if (workspaceResponse.data.isDefault)
isDefaultOf(w) == w.isDefault

\* A call starts: the locals of the previous call are gone, the call count
\* and the switch answer stay.
startCall(op, name, workspaceId, confirmDelete, pc) ==
  [IdleWorkspaceCall EXCEPT !.pc = pc, !.op = op, !.name = name,
                            !.workspaceId = workspaceId,
                            !.confirmDelete = confirmDelete,
                            !.calls = wc.calls + 1, !.switched = wc.switched]

CanCall == wc.pc \in {"idle", "returned"} /\ wc.calls < MaxCalls

\* Workspace ids a call may name: those of the remote and one no workspace has.
CallIds == WorkspaceIds(ws.list) \cup {ws.nextId}

\* create_workspace: createWorkspaceIfPossible(args.name)
createWorkspaceIfPossible_call ==
  /\ CanCall
  /\ \E name \in WorkspaceNames :
       wc' = startCall("createWorkspaceIfPossible", name, 0, "undefined", "canCreate")
  /\ UNCHANGED <<coreVars, bt, rg, ws, fb>>

\* can_create_workspace: handleCanCreateWorkspace
handleCanCreateWorkspace_call ==
  /\ CanCall
  /\ wc' = startCall("handleCanCreateWorkspace", "", 0, "undefined", "canCreate")
  /\ UNCHANGED <<coreVars, bt, rg, ws, fb>>

\* delete_workspace: deleteWorkspaceWithConfirmation(workspaceId, confirmDelete);
\* without confirmation it returns at once.
deleteWorkspaceWithConfirmation_call ==
  /\ CanCall
  /\ \E id \in CallIds, confirm \in {"true", "false", "undefined"} :
       wc' = IF confirm = "true"
             THEN startCall("deleteWorkspaceWithConfirmation", "", id, confirm, "byId")
             ELSE [startCall("deleteWorkspaceWithConfirmation", "", id, confirm,
                             "returned")
                     EXCEPT !.result =
                       Failure("VALIDATION_ERROR",
                               "Workspace deletion requires explicit confirmation due to data loss")]
  /\ UNCHANGED <<coreVars, bt, rg, ws, fb>>

\* switch_workspace: switchWorkspace(args.workspaceId)
switchWorkspace_call ==
  /\ CanCall
  /\ \E id \in CallIds :
       wc' = startCall("switchWorkspace", "", id, "undefined", "byId")
  /\ UNCHANGED <<coreVars, bt, rg, ws, fb>>

\* list_notes: listNotes(args), with or without a workspaceId
listNotes_call ==
  /\ CanCall
  /\ \E id \in WorkspaceIds(ws.list) \cup {0} :
       wc' = startCall("listNotes", "", id, "undefined", "notes")
  /\ UNCHANGED <<coreVars, bt, rg, ws, fb>>

\* Math.max(0, 2 - workspaces.length)
remainingSlots(length) ==
  IF WorkspaceLimit - length > 0 THEN WorkspaceLimit - length ELSE 0

\* canCreateWorkspace: getAllWorkspaces lists the workspaces; a failure is
\* thrown by getAllWorkspaces and caught here, giving false.
\* createWorkspaceIfPossible returns its FORBIDDEN error when it is false.
canCreateWorkspace_list ==
  /\ wc.pc = "canCreate"
  /\ \E out \in RemoteOutcomes :
       LET can == ~out.failed /\ canCreate(ws.list)
           logged == [wc EXCEPT
                        !.reqs = logWorkspaceRequest("GET", "/workspace", 0, 0, out),
                        !.canCreate = can,
                        !.listedCount = IF out.failed THEN 0 ELSE Len(ws.list)]
       IN wc' = IF wc.op = "handleCanCreateWorkspace"
                THEN [logged EXCEPT !.pc = "recount"]
                ELSE IF can
                     THEN [logged EXCEPT !.pc = "byName"]
                     ELSE [logged EXCEPT
                             !.pc = "returned",
                             !.result =
                               Failure("FORBIDDEN",
                                       "Maximum number of workspaces reached (2 per user)")]
  /\ UNCHANGED <<coreVars, bt, rg, ws, fb>>

\* handleCanCreateWorkspace: getAllWorkspaces once more, for the count; a
\* failure is thrown on as an Error with the message.
handleCanCreateWorkspace_recount ==
  /\ wc.pc = "recount"
  /\ \E out \in RemoteOutcomes :
       wc' = [wc EXCEPT
                !.reqs = logWorkspaceRequest("GET", "/workspace", 0, 0, out),
                !.pc = "returned",
                !.currentCount = IF out.failed THEN 0 ELSE Len(ws.list),
                !.remainingSlots = IF out.failed THEN 0
                                   ELSE remainingSlots(Len(ws.list)),
                !.result = IF out.failed
                           THEN Failure("thrown", out.error.message)
                           ELSE Success(NoWorkspace)]
  /\ UNCHANGED <<coreVars, bt, rg, ws, fb>>

\* createWorkspaceIfPossible: getWorkspaceByName(name); only a Success with a
\* workspace stops the creation.
getWorkspaceByName_list ==
  /\ wc.pc = "byName"
  /\ \E out \in RemoteOutcomes :
       LET existing == IF out.failed THEN NoWorkspace
                       ELSE findByLowerName(ws.list, wc.name)
           logged == [wc EXCEPT
                        !.reqs = logWorkspaceRequest("GET", "/workspace", 0, 0, out),
                        !.found = existing]
       IN wc' = IF existing # NoWorkspace
                THEN [logged EXCEPT
                        !.pc = "returned",
                        !.result = Failure("VALIDATION_ERROR",
                                           "Workspace with this name already exists")]
                ELSE [logged EXCEPT !.pc = "post"]
  /\ UNCHANGED <<coreVars, bt, rg, ws, fb>>

\* return this.createWorkspace({name}): POST /workspace
createWorkspace_post ==
  /\ wc.pc = "post"
  /\ \E out \in RemoteOutcomes :
       LET created == [id |-> ws.nextId, name |-> wc.name,
                       isDefault |-> ws.list = <<>>]
       IN /\ wc' = [wc EXCEPT
                      !.reqs = logWorkspaceRequest("POST", "/workspace", 0, 0, out),
                      !.pc = "returned",
                      !.result = IF out.failed
                                 THEN Failure(out.error.code, out.error.message)
                                 ELSE Success(created)]
          /\ ws' = IF out.failed THEN ws
                   ELSE [list |-> Append(ws.list, created), nextId |-> ws.nextId + 1]
  /\ UNCHANGED <<coreVars, bt, rg, fb>>

\* getWorkspaceById behind deleteWorkspaceWithConfirmation and switchWorkspace:
\* the listing, the find, and what the caller does with the answer.
getWorkspaceById_list ==
  /\ wc.pc = "byId"
  /\ \E out \in RemoteOutcomes :
       LET workspace == IF out.failed THEN NoWorkspace
                        ELSE findById(ws.list, wc.workspaceId)
           logged == [wc EXCEPT
                        !.reqs = logWorkspaceRequest("GET", "/workspace", 0, 0, out),
                        !.found = workspace]
           answer == IF out.failed
                     THEN Failure(out.error.code, out.error.message)
                     ELSE Success(workspace)
       IN wc' = IF wc.op = "switchWorkspace"
                THEN [logged EXCEPT
                        !.pc = "returned",
                        !.result = answer,
                        !.switched = IF workspace # NoWorkspace
                                     THEN workspace.id ELSE wc.switched]
                ELSE IF out.failed \/ workspace = NoWorkspace
                     THEN [logged EXCEPT !.pc = "returned", !.result = answer]
                     ELSE IF isDefaultOf(workspace)
                          THEN [logged EXCEPT
                                  !.pc = "returned",
                                  !.result = Failure("FORBIDDEN",
                                                     "Cannot delete default workspace")]
                          ELSE [logged EXCEPT !.pc = "delete"]
  /\ UNCHANGED <<coreVars, bt, rg, ws, fb>>

\* return this.deleteWorkspace({workspaceId}): DELETE /workspace; the remote
\* refuses to delete a default workspace.
deleteWorkspace_delete ==
  /\ wc.pc = "delete"
  /\ \E out \in RemoteOutcomes :
       /\ findById(ws.list, wc.workspaceId).isDefault => out.failed
       /\ wc' = [wc EXCEPT
                   !.reqs = logWorkspaceRequest("DELETE", "/workspace", wc.workspaceId,
                                                wc.workspaceId, out),
                   !.pc = "returned",
                   !.result = IF out.failed
                              THEN Failure(out.error.code, out.error.message)
                              ELSE Success(findById(ws.list, wc.workspaceId))]
       /\ ws' = IF out.failed THEN ws
                ELSE [ws EXCEPT !.list = SelectSeq(ws.list,
                                                   LAMBDA w : w.id # wc.workspaceId)]
  /\ UNCHANGED <<coreVars, bt, rg, fb>>

\* GET /note: queryParams.workspaceId is set only when the caller gave one.
listNotes_request ==
  /\ wc.pc = "notes"
  /\ \E out \in RemoteOutcomes :
       wc' = [wc EXCEPT
                !.reqs = logWorkspaceRequest("GET", "/note", wc.workspaceId,
                                             targetOf(ws.list, wc.workspaceId), out),
                !.pc = "returned",
                !.result = IF out.failed
                           THEN Failure(out.error.code, out.error.message)
                           ELSE Success(NoWorkspace)]
  /\ UNCHANGED <<coreVars, bt, rg, ws, fb>>

InitWorkspace ==
  /\ IdleCore
  /\ IdleBulk
  /\ IdleRoot
  /\ \E l \in WorkspaceInits : ws = [list |-> l, nextId |-> Len(l) + 1]
  /\ wc = IdleWorkspaceCall
  /\ IdleFind
  /\ IdleHelpers

NextWorkspace ==
  \/ createWorkspaceIfPossible_call
  \/ handleCanCreateWorkspace_call
  \/ deleteWorkspaceWithConfirmation_call
  \/ switchWorkspace_call
  \/ listNotes_call
  \/ canCreateWorkspace_list
  \/ handleCanCreateWorkspace_recount
  \/ getWorkspaceByName_list
  \/ createWorkspace_post
  \/ getWorkspaceById_list
  \/ deleteWorkspace_delete
  \/ listNotes_request

SpecWorkspace == InitWorkspace /\ [][NextWorkspace]_vars

\* C14: after a successful switch_workspace(W), a later tool call that omits
\* workspaceId operates on W: its remote requests target workspace W.
C14_SwitchSetsContext ==
  (wc.op = "listNotes" /\ wc.workspaceId = 0
     /\ wc.switched \in WorkspaceIds(ws.list)) =>
    \A i \in DOMAIN wc.reqs : wc.reqs[i].target = wc.switched

DeleteRequests == {i \in DOMAIN wc.reqs : wc.reqs[i].method = "DELETE"}

\* C16: delete_workspace is safe in every sequence of calls: a DELETE
\* /workspace request is issued only with confirmDelete true and for a
\* workspace that the listing just read holds with isDefault false; without
\* confirmation no remote request is made at all, and a default workspace is
\* never the target of a delete request.
C16_DeleteIsSafe ==
  /\ \A i \in DeleteRequests :
       /\ wc.confirmDelete = "true"
       /\ wc.found # NoWorkspace
       /\ wc.found.id = wc.reqs[i].target
       /\ ~wc.found.isDefault
       /\ ~wc.reqs[i].targetDefault
  /\ (wc.op = "deleteWorkspaceWithConfirmation" /\ wc.confirmDelete # "true") =>
       wc.reqs = <<>>

\* A confirmed delete of a workspace that is not the default one went through
\* while the remote also holds a default workspace.
C16_Witness ==
  /\ wc.op = "deleteWorkspaceWithConfirmation"
  /\ wc.pc = "returned"
  /\ wc.result.success
  /\ DeleteRequests # {}
  /\ wc.workspaceId \notin WorkspaceIds(ws.list)
  /\ \E i \in DOMAIN ws.list : ws.list[i].isDefault

\* C17: create_workspace respects the limit of two workspaces: a POST
\* /workspace is issued only when the listing just fetched holds fewer than
\* two workspaces, so from at most two workspaces, sequential calls never
\* bring the remote above two.
C17_AtMostTwoWorkspaces ==
  /\ Len(ws.list) <= WorkspaceLimit
  /\ \A i \in DOMAIN wc.reqs :
       wc.reqs[i].method = "POST" => wc.listedCount < WorkspaceLimit

\* A create call has just brought the remote to two workspaces.
C17_Witness ==
  /\ wc.op = "createWorkspaceIfPossible"
  /\ wc.pc = "returned"
  /\ wc.result.success
  /\ Len(ws.list) = WorkspaceLimit
  /\ \E i \in DOMAIN wc.reqs : wc.reqs[i].method = "POST"

\* C18: no operation swallows a remote failure: when a remote call made
\* inside canCreateWorkspace (as can_create_workspace reports it),
\* createWorkspaceIfPossible or deleteWorkspaceWithConfirmation failed, the
\* operation's outcome is a failure with that error's code and message.
C18_NoSwallowedFailure ==
  (wc.pc = "returned"
     /\ wc.op \in {"handleCanCreateWorkspace", "createWorkspaceIfPossible",
                   "deleteWorkspaceWithConfirmation"}) =>
    \A i \in DOMAIN wc.reqs :
      wc.reqs[i].failed =>
        /\ ~wc.result.success
        /\ wc.result.error = wc.reqs[i].error

\* C20: no retries: once a remote call of an operation has failed, the
\* operation issues no further request and returns a failure at once.
C20_NoRequestAfterFailure ==
  \A i \in DOMAIN wc.reqs :
    wc.reqs[i].failed =>
      /\ i = Len(wc.reqs)
      /\ wc.pc = "returned"
      /\ ~wc.result.success

(***************************************************************************)
(* The find-by-id operations getNoteById, getGroupById, getTodoById and    *)
(* getWorkspaceById: one listing request, then a find in the page that     *)
(* came back.  The remote holds the records 1..count of the kind, in its   *)
(* listing order, and serves the first page of the requested size; a       *)
(* /workspace listing, requested without a limit, comes whole.  Record 0   *)
(* stands for null.                                                        *)
(***************************************************************************)
FindKinds == {"note", "group", "todo", "workspace"}

\* limit: 100 of getNoteById, getGroupById and getTodoById
FindLimit == 100

\* The limit of the listing request; getWorkspaceById sends none.
findLimitOf(kind, count) == IF kind = "workspace" THEN count ELSE FindLimit

\* The ids looked for: the first and the last record, the records around the
\* end of the first page, and an id no record has.
FindIds(count) == {1, FindLimit, FindLimit + 1, count, count + 1} \cap (1..(count + 1))

\* response.data.find((n) => n.id === noteId) || null
findInPage(page, id) == IF \E i \in DOMAIN page : page[i] = id THEN id ELSE 0

\* get...ById(id, workspaceId) is called and sends its listing request.
findById_call ==
  /\ fb.pc = "idle"
  /\ \E kind \in FindKinds, id \in FindIds(listing.count),
        workspaceId \in {"undefined", "given"} :
       /\ kind = "workspace" => workspaceId = "undefined"
       /\ fb' = [fb EXCEPT !.pc = "listing", !.kind = kind, !.id = id,
                           !.workspaceId = workspaceId,
                           !.limit = findLimitOf(kind, listing.count)]
  /\ UNCHANGED <<coreVars, bt, rg, workspaceVars>>

\* The listing succeeds: the record is looked for in the page.
findById_list ==
  /\ fb.pc = "listing"
  /\ LET page == pageItems(listing.count, 1, fb.limit)
     IN fb' = [fb EXCEPT !.pc = "returned", !.listed = Len(page), !.listOk = TRUE,
                         !.result = [success |-> TRUE,
                                     data |-> findInPage(page, fb.id)]]
  /\ UNCHANGED <<coreVars, bt, rg, workspaceVars>>

\* The listing fails: return response
findById_fails ==
  /\ fb.pc = "listing"
  /\ \E resp \in ErrorResponses :
       fb' = [fb EXCEPT !.pc = "returned", !.listOk = FALSE, !.result = resp]
  /\ UNCHANGED <<coreVars, bt, rg, workspaceVars>>

InitFind ==
  /\ groups = <<>>
  /\ IdleTree
  /\ IdlePath
  /\ IdleRemote
  /\ IdleClient
  /\ listing \in [count : 0..MaxItems, pagination : {FALSE}]
  /\ pf = IdleFetchCall
  /\ IdleDispatch
  /\ IdleFacades

NextFind ==
  \/ findById_call
  \/ findById_list
  \/ findById_fails

SpecFind == InitFind /\ [][NextFind]_vars

\* C19: a find-by-id operation returns Success with the matching record for
\* every id a record of the remote has, whatever the number of records and
\* whether or not a workspaceId is given; it returns Success with null only
\* when no record has the id, and a Failure only when the listing failed.
C19_FindByIdFindsEveryRecord ==
  fb.pc = "returned" =>
    /\ (fb.listOk /\ fb.id \in 1..listing.count) =>
         (fb.result.success /\ fb.result.data = fb.id)
    /\ (fb.result.success /\ fb.result.data = 0) => fb.id \notin 1..listing.count
    /\ ~fb.result.success => ~fb.listOk

(***************************************************************************)
(* Levels and paths of the forests of buildGroupTree.                      *)
(***************************************************************************)
LevelsAndPathsFollowParents(f) ==
  /\ \A id \in Range(f.roots) : f.level[id] = 0 /\ f.path[id] = <<>>
  /\ \A id \in Reachable(f) \ Range(f.roots) :
       LET p == f.parentId[id]
       IN /\ f.level[id] = f.level[p] + 1
          /\ f.path[id] = Append(f.path[p], f.name[p])

\* C21: in every forest buildGroupTree returns, for every order of the input
\* list, each root has level 0 and an empty path, and each other node has
\* the level of its tree parent plus 1 and the path of its parent followed
\* by the parent's name.
C21_LevelsAndPathsFollowParents ==
  treePc = "built" =>
    /\ LevelsAndPathsFollowParents(forest)
    /\ LevelsAndPathsFollowParents(forest2)

(***************************************************************************)
(* The walk of getGroupPath on snapshots whose parentId links form a cycle.*)
(***************************************************************************)

\* C22: getGroupPath terminates on every snapshot, cyclic ones included: the
\* walk stops before it would revisit an id, so no group id is visited twice.
C22_NoIdVisitedTwice ==
  Injective(gp.visited)

(***************************************************************************)
(* The groups and the requests of createGroupPath.  The remote only grows  *)
(* here, so the groups it held when group g was created are those before g *)
(* in the remote's creation order.                                         *)
(***************************************************************************)
NestedChain(gs) ==
  \A i \in DOMAIN gs :
    gs[i].parentId = IF i = 1 THEN NoParent ELSE gs[i - 1].id

\* C23: the groups a successful createGroupPath returns form a nested chain:
\* one group per name in order, the first a root-level group, each later one
\* with the previous group's id as its parentId.
C23_ResultIsNestedChain ==
  \A p \in Procs :
    cg[p].pc = "done" =>
      LET data == cg[p].result.data
      IN /\ Len(data) = Len(cg[p].path)
         /\ \A i \in DOMAIN data : data[i].name = cg[p].path[i]
         /\ NestedChain(data)

\* The step of the path a request belongs to: one list request per step.
StepOf(c, k) == Len(SelectSeq(SubSeq(c.reqs, 1, k), LAMBDA r : r.op = "list"))

ExistedUnder(rem, before, name, parentId) ==
  \E j \in DOMAIN rem :
    j < before /\ rem[j].name = name /\ rem[j].parentId = parentId

\* C24: at each step a create request is issued if and only if no group of
\* exactly that name exists under the current parent; an existing group is
\* reused, a created one is created under the current parent.
C24_CreateIffAbsentUnderParent ==
  \A p \in Procs :
    LET c == cg[p]
    IN \A k \in DOMAIN c.reqs :
         LET r == c.reqs[k]
             step == StepOf(c, k)
             parent == IF step = 1 THEN NoParent ELSE c.createdGroups[step - 1].id
         IN r.resp.success =>
              /\ r.parentId = parent
              /\ r.op = "create" =>
                   /\ r.name = c.path[step]
                   /\ r.resp.data.parentId = parent
                   /\ ~ExistedUnder(remote, r.resp.data.id, r.name, parent)
              /\ (r.op = "list" /\ Len(c.createdGroups) >= step
                    /\ (k = Len(c.reqs) \/ c.reqs[k + 1].op = "list")) =>
                   /\ c.createdGroups[step].name = c.path[step]
                   /\ c.createdGroups[step].parentId = parent

(***************************************************************************)
(* The paginated fetch loop under fair scheduling: a call that can take a  *)
(* step takes one.                                                         *)
(***************************************************************************)
SpecFetchFair == SpecFetch /\ WF_vars(NextFetch)

\* After page p of a listing of count items: is page p + 1 to be requested?
ContinuesAfter(p) ==
  IF listing.pagination
  THEN p < totalPages(listing.count, limitOf(pf.which))
  ELSE listing.count >= p * limitOf(pf.which)

FetchStepsInOrder ==
  /\ pf.requests = [i \in 1..Len(pf.requests) |-> i]
  /\ (pf.pc = "loop" /\ pf.requests # <<>>) =>
       (pf.hasMore <=> ContinuesAfter(Len(pf.requests)))
  /\ (pf.pc = "returned" /\ listing.count = 0) =>
       (pf.requests = <<1>> /\ pf.all = <<>>)

\* C25: the fetch loop requests the pages 1, 2, 3, ... one at a time; after
\* page p it requests page p + 1 if and only if the metadata is present and
\* p < totalPages, or no metadata is present and the page held exactly
\* pageSize items; it terminates on every finite listing, and an empty page 1
\* ends it after one request with an empty result.
C25_FetchLoopTerminates ==
  /\ []FetchStepsInOrder
  /\ <>(pf.pc \in {"returned", "thrown"})

\* A fetch of an empty listing has returned after its one request.
C25_Witness ==
  /\ pf.pc = "returned"
  /\ listing.count = 0
  /\ pf.requests = <<1>>
  /\ pf.all = <<>>

(***************************************************************************)
(* The append operations NotesApi.appendToNote, CalendarApi.               *)
(* appendToDailyNote and CalendarApi.appendToWeeklyNote: read the note,    *)
(* then send one update with the new content.  A content is a sequence of  *)
(* characters.                                                             *)
(***************************************************************************)
\* The longest content read or given.
MaxText == 2

Chars == {"a", "\n"}

Texts == UNION {[1..n -> Chars] : n \in 0..MaxText}

\* '\n\n'
Separator == <<"\n", "\n">>

AppendOps == {"appendToNote", "appendToDailyNote", "appendToWeeklyNote"}

\* currentNote.content + '\n\n' + additionalContent
appendToNote(existing, additionalContent) ==
  existing \o Separator \o additionalContent

\* currentNote.data.content ? currentNote.data.content + '\n\n' + content : content
appendToDailyNote(existing, content) ==
  IF existing # <<>> THEN existing \o Separator \o content ELSE content

appendToWeeklyNote(existing, content) ==
  IF existing # <<>> THEN existing \o Separator \o content ELSE content

updatedContent(op, existing, content) ==
  CASE op = "appendToNote" -> appendToNote(existing, content)
    [] op = "appendToDailyNote" -> appendToDailyNote(existing, content)
    [] op = "appendToWeeklyNote" -> appendToWeeklyNote(existing, content)

\* An append operation is called and sends the request that reads the note.
append_call ==
  /\ ap.pc = "idle"
  /\ \E op \in AppendOps, content \in Texts :
       ap' = [ap EXCEPT !.pc = "reading", !.op = op, !.content = content]
  /\ UNCHANGED <<baseVars, tg, cf>>

\* The read fails, or getNoteById finds no note: the response is returned
\* and no update is sent.
append_readFails ==
  /\ ap.pc = "reading"
  /\ \E read \in {"failed", "null"} :
       /\ read = "null" => ap.op = "appendToNote"
       /\ ap' = [ap EXCEPT !.pc = "returned", !.read = read,
                           !.success = (read = "null")]
  /\ UNCHANGED <<baseVars, tg, cf>>

\* The note is read: the update is sent and its response is returned.
append_update ==
  /\ ap.pc = "reading"
  /\ \E success \in BOOLEAN :
       ap' = [ap EXCEPT !.pc = "returned", !.read = "ok", !.success = success,
                        !.updates = Append(ap.updates,
                                      updatedContent(ap.op, ap.existing, ap.content))]
  /\ UNCHANGED <<baseVars, tg, cf>>

InitAppend ==
  /\ IdleCore
  /\ IdleBulk
  /\ IdleRoot
  /\ IdleWorkspaces
  /\ IdleFind
  /\ \E existing \in Texts :
       ap = [pc |-> "idle", op |-> "none", existing |-> existing, content |-> <<>>,
             read |-> "none", updates |-> <<>>, success |-> FALSE]
  /\ IdleToggle
  /\ IdleConfig

NextAppend ==
  \/ append_call
  \/ append_readFails
  \/ append_update

SpecAppend == InitAppend /\ [][NextAppend]_vars

\* C26: every append operation that has read the note writes back existing +
\* blank-line separator + new when the existing content is not empty, and
\* exactly the new content, without a leading separator, when it is empty.
C26_AppendSeparatesOnlyNonEmpty ==
  (ap.pc = "returned" /\ ap.read = "ok") =>
    /\ Len(ap.updates) = 1
    /\ ap.updates[1] = IF ap.existing # <<>>
                       THEN ap.existing \o Separator \o ap.content
                       ELSE ap.content

(***************************************************************************)
(* TodosApi.toggleTodo: getTodoById reads the first page of 100 todos and  *)
(* looks for the todo in it; when it is there, one PUT /todo is sent with  *)
(* the opposite of the completed value read.  The remote holds the todos   *)
(* 1..listing.count in its listing order; the calls are about one todo,    *)
(* tg.todoId, and are made one after the other, with no other writer.      *)
(***************************************************************************)
MaxToggles == 2

\* toggleTodo(todoId) is called and getTodoById sends its listing request.
toggleTodo_call ==
  /\ tg.pc \in {"idle", "returned"}
  /\ tg.calls < MaxToggles
  /\ tg' = [tg EXCEPT !.pc = "listing", !.calls = tg.calls + 1]
  /\ UNCHANGED <<baseVars, ap, cf>>

\* The listing fails: the failure is returned, no update is sent.
toggleTodo_listFails ==
  /\ tg.pc = "listing"
  /\ tg' = [tg EXCEPT !.pc = "returned", !.listOk = FALSE, !.found = FALSE]
  /\ UNCHANGED <<baseVars, ap, cf>>

\* The listing succeeds: the todo is looked for in the page; when it is not
\* there, { success: true, data: null } is returned and no update is sent.
toggleTodo_list ==
  /\ tg.pc = "listing"
  /\ LET page == pageItems(listing.count, 1, FindLimit)
         found == findInPage(page, tg.todoId) # 0
     IN tg' = [tg EXCEPT !.pc = IF found THEN "updating" ELSE "returned",
                         !.listOk = TRUE, !.found = found,
                         !.seen = tg.completed]
  /\ UNCHANGED <<baseVars, ap, cf>>

\* updateTodo({ todoId, completed: !todo.completed }): the request is sent;
\* the remote applies it unless it fails.
toggleTodo_update ==
  /\ tg.pc = "updating"
  /\ \E refused \in BOOLEAN :
       tg' = [tg EXCEPT !.pc = "returned",
                        !.completed = IF refused THEN tg.completed ELSE ~tg.seen,
                        !.updates = Append(tg.updates,
                                      [call |-> tg.calls, todoId |-> tg.todoId,
                                       completed |-> ~tg.seen, failed |-> refused])]
  /\ UNCHANGED <<baseVars, ap, cf>>

InitToggle ==
  /\ groups = <<>>
  /\ IdleTree
  /\ IdlePath
  /\ IdleRemote
  /\ IdleClient
  /\ listing \in [count : 0..MaxItems, pagination : {FALSE}]
  /\ pf = IdleFetchCall
  /\ IdleDispatch
  /\ IdleBulk
  /\ IdleRoot
  /\ IdleWorkspaces
  /\ IdleFind
  /\ IdleAppend
  /\ \E id \in FindIds(listing.count), c \in BOOLEAN :
       tg = [pc |-> "idle", todoId |-> id, completed |-> c, original |-> c,
             seen |-> FALSE, listOk |-> FALSE, found |-> FALSE, updates |-> <<>>,
             calls |-> 0]
  /\ IdleConfig

NextToggle ==
  \/ toggleTodo_call
  \/ toggleTodo_listFails
  \/ toggleTodo_list
  \/ toggleTodo_update

SpecToggle == InitToggle /\ [][NextToggle]_vars

\* The update requests of the current call.
UpdatesOfCall == SelectSeq(tg.updates, LAMBDA u : u.call = tg.calls)

\* C27: a toggleTodo call that could list the todos of the remote issues, for
\* a todo the remote holds with completed = c, exactly one update request,
\* for that todo with completed = not c; two such calls in sequence, their
\* updates applied, restore the original value; for a todo the remote does
\* not hold no update request is issued.
C27_ToggleFlipsExistingTodo ==
  (tg.pc = "returned" /\ tg.listOk) =>
    /\ tg.todoId \in 1..listing.count =>
         /\ Len(UpdatesOfCall) = 1
         /\ UpdatesOfCall[1].todoId = tg.todoId
         /\ UpdatesOfCall[1].completed = ~tg.seen
    /\ tg.todoId \notin 1..listing.count => UpdatesOfCall = <<>>
    /\ (tg.calls = 2 /\ Len(tg.updates) = 2
          /\ \A i \in 1..2 : ~tg.updates[i].failed) =>
         tg.completed = tg.original

(***************************************************************************)
(* createGroupPath called twice at once for the same names: the remote     *)
(* calls of the two invocations interleave in any order.                   *)
(***************************************************************************)
\* The calls made so far are for the same names.
SameNames(calls) ==
  \A p, q \in Procs :
    (calls[p].pc # "idle" /\ calls[q].pc # "idle") => calls[p].path = calls[q].path

NextCreatePathConcurrent ==
  \E p \in Procs :
    \/ (createGroupPath_call(p) /\ SameNames(cg'))
    \/ createGroupPath_listFails(p)
    \/ createGroupPath_list(p)
    \/ createGroupPath_createFails(p)
    \/ createGroupPath_create(p)

SpecCreatePathConcurrent == InitCreatePath /\ [][NextCreatePathConcurrent]_vars

\* The create requests of call p that the remote served.
CreatedBy(p) ==
  {cg[p].reqs[i].resp.data :
     i \in {j \in DOMAIN cg[p].reqs :
              cg[p].reqs[j].op = "create" /\ cg[p].reqs[j].resp.success}}

\* C28: createGroupPath is not coordinated across concurrent invocations: a
\* call that found no group of the name in its listing creates one whatever
\* the remote has come to hold since, so a create request served by the
\* remote always adds a group of the step's name under the step's parent,
\* also when the other call has created that sibling in the meantime.
C28_CreateIgnoresOtherCall ==
  [][\A p \in Procs :
       (cg[p].pc = "create" /\ cg'[p].pc \notin {"create", "failed"}) =>
         /\ Len(remote') = Len(remote) + 1
         /\ remote'[Len(remote')].name = cg[p].path[cg[p].i]
         /\ remote'[Len(remote')].parentId = cg[p].currentParentId]_vars

\* Both calls have created a group of the same name under the same parent:
\* the remote holds two such siblings.
C28_Witness ==
  \E g1 \in CreatedBy(1), g2 \in CreatedBy(2) :
    /\ g1.id # g2.id
    /\ g1.name = g2.name
    /\ g1.parentId = g2.parentId
    /\ \E i, j \in DOMAIN remote : remote[i] = g1 /\ remote[j] = g2

(***************************************************************************)
(* The configuration of a SidvyApiClient: the constructor, then any        *)
(* sequence of updateConfig calls.  Of the config only apiToken matters    *)
(* for the Authorization header.                                           *)
(***************************************************************************)
MaxUpdates == 3

TokenStrings == {"", "t1", "t2"}

Tokens == {Token("undefined", "")} \cup {Token("string", v) : v \in TokenStrings}

\* Partial<SidvyConfig>: the apiToken key is absent, or present with a value
\* that is undefined or a string.
NewConfigs ==
  {[has |-> FALSE, apiToken |-> Token("undefined", "")]}
    \cup {[has |-> TRUE, apiToken |-> t] : t \in Tokens}

\* if (config.apiToken): a string that is not empty
truthy(token) == token.kind = "string" /\ token.value # ""

\* `Bearer ${config.apiToken}`
Bearer(token) == [present |-> TRUE, value |-> "Bearer " \o token.value]

\* new SidvyApiClient(config)
constructor ==
  /\ cf.pc = "unbuilt"
  /\ \E v \in TokenStrings :
       LET apiToken == Token("string", v)
       IN cf' = [cf EXCEPT !.pc = "built", !.apiToken = apiToken,
                           !.Authorization = IF truthy(apiToken) THEN Bearer(apiToken)
                                             ELSE NoHeader]
  /\ UNCHANGED <<baseVars, ap, tg>>

\* updateConfig(newConfig)
updateConfig ==
  /\ cf.pc = "built"
  /\ Len(cf.calls) < MaxUpdates
  /\ \E newConfig \in NewConfigs :
       cf' = [cf EXCEPT
                \* { ...this.config, ...newConfig }
                !.apiToken = IF newConfig.has THEN newConfig.apiToken ELSE cf.apiToken,
                !.Authorization =
                  IF newConfig.has /\ newConfig.apiToken.kind # "undefined"
                  THEN IF truthy(newConfig.apiToken) THEN Bearer(newConfig.apiToken)
                       ELSE NoHeader
                  ELSE cf.Authorization,
                !.calls = Append(cf.calls, newConfig)]
  /\ UNCHANGED <<baseVars, ap, tg>>

InitConfig ==
  /\ IdleCore
  /\ IdleBulk
  /\ IdleRoot
  /\ IdleWorkspaces
  /\ IdleFind
  /\ IdleHelpers

NextConfig ==
  \/ constructor
  \/ updateConfig

SpecConfig == InitConfig /\ [][NextConfig]_vars

\* C29: after construction and any sequence of updateConfig calls the
\* Authorization header is present if and only if the current config.apiToken
\* is a non-empty string, and when present it is 'Bearer ' followed by the
\* current config.apiToken.
C29_HeaderFollowsToken ==
  cf.pc = "built" =>
    /\ cf.Authorization.present <=> (cf.apiToken.kind = "string" /\ cf.apiToken.value # "")
    /\ cf.Authorization.present =>
         cf.Authorization.value = "Bearer " \o cf.apiToken.value

\* C30: every successful can_create_workspace response is consistent:
\* canCreate is true exactly when currentCount < 2, that is when
\* remainingSlots > 0, whatever the outcomes of the two listings.
C30_CanCreateMatchesCount ==
  (wc.pc = "returned" /\ wc.op = "handleCanCreateWorkspace" /\ wc.result.success) =>
    /\ wc.canCreate <=> wc.currentCount < WorkspaceLimit
    /\ wc.canCreate <=> wc.remainingSlots > 0

====
